---- MODULE Spec2Model ----
(***************************************************************************)
(* Fuzzy matching and ranking engine of the employee directory:            *)
(* SearchService (src/src/app/services/search.service.ts), and the data    *)
(* table that filters, sorts and pages with it: DataTableComponent         *)
(* (src/src/app/models/employee.model.ts).                                 *)
(*                                                                         *)
(* Strings are sequences of one-character strings.  JavaScript numbers are *)
(* exact rationals [num, den] with den > 0, and den = 0 for NaN; on every  *)
(* string length the model reaches, the IEEE-754 double evaluation of the  *)
(* code's expressions orders and equates the scores exactly as the         *)
(* rationals do (the comparisons  > 0, > 0.4, >= 0.3  and  b.score -       *)
(* a.score  have the same outcome).                                        *)
(***************************************************************************)
EXTENDS Integers, Sequences, FiniteSets, TLC

VARIABLES query, target, result, site, swapped, swappedSite, pc,
          employees, searchTerm, ranked, reranked, paddedTerm, paddedRanked,
          heap, allEmployees, filteredEmployees, displayedEmployees,
          sortState, currentPage, totalPages, isLoading, errorMessage,
          pendingTerm, lastEmitted, searchSubscription, inFlight, loaded

scoreVars == <<query, target, result, site, swapped, swappedSite>>
rankVars == <<employees, searchTerm, ranked, reranked, paddedTerm, paddedRanked>>
tableVars == <<heap, allEmployees, filteredEmployees, displayedEmployees,
               sortState, currentPage, totalPages, isLoading, errorMessage,
               pendingTerm, lastEmitted, searchSubscription, inFlight, loaded>>
vars == <<scoreVars, pc, rankVars, tableVars>>

---------------------------------------------------------------------------
(* Bounds *)

\* longest generated string of the score harness
MaxLen == 4
\* longest generated employee list of the ranking harness
MaxRecords == 3

\* the longest list of employees a padded search term is tried on
MaxPadRecords == 2

\* the longest employee list the service delivers to the data table
MaxLoaded == 12
\* the most getEmployees subscriptions awaiting delivery at a time
MaxInFlight == 1

---------------------------------------------------------------------------
(* JavaScript numbers *)

Rat(n, d) == [num |-> n, den |-> d]
NaN == Rat(0, 0)
IsFinite(x) == x.den > 0

\* a / b on numbers: 0 / 0 is NaN (no other division by zero is reachable:
\* every divisor of the code is a length, and its dividend is 0 with it)
Div(x, y) ==
  IF ~IsFinite(x) \/ ~IsFinite(y) \/ y.num = 0 THEN NaN
  ELSE Rat(x.num * y.den, x.den * y.num)

Plus(x, y) ==
  IF ~IsFinite(x) \/ ~IsFinite(y) THEN NaN
  ELSE Rat(x.num * y.den + y.num * x.den, x.den * y.den)

Minus(x, y) ==
  IF ~IsFinite(x) \/ ~IsFinite(y) THEN NaN
  ELSE Rat(x.num * y.den - y.num * x.den, x.den * y.den)

Times(x, y) ==
  IF ~IsFinite(x) \/ ~IsFinite(y) THEN NaN
  ELSE Rat(x.num * y.num, x.den * y.den)

\* x > y, x >= y, x === y: false as soon as one side is NaN
Gt(x, y) == IsFinite(x) /\ IsFinite(y) /\ x.num * y.den > y.num * x.den
Ge(x, y) == IsFinite(x) /\ IsFinite(y) /\ x.num * y.den >= y.num * x.den
NumEq(x, y) == IsFinite(x) /\ IsFinite(y) /\ x.num * y.den = y.num * x.den

\* Math.max(a, b) on integers
MathMax(a, b) == IF a >= b THEN a ELSE b
\* Math.min(a, b, c) on integers
MathMin3(a, b, c) ==
  IF a <= b /\ a <= c THEN a ELSE IF b <= c THEN b ELSE c

---------------------------------------------------------------------------
(* JavaScript strings *)

\* String.prototype.toLowerCase, one character
LowerChar(c) ==
  CASE c = "A" -> "a"
    [] c = "B" -> "b"
    [] c = "J" -> "j"
    [] OTHER -> c

toLowerCase(s) == [i \in 1..Len(s) |-> LowerChar(s[i])]

\* String.prototype.includes
includes(text, search) ==
  \E i \in 0..(Len(text) - Len(search)) :
    SubSeq(text, i + 1, i + Len(search)) = search

\* String.prototype.startsWith
startsWith(text, search) ==
  /\ Len(search) <= Len(text)
  /\ SubSeq(text, 1, Len(search)) = search

WhiteSpace == {" ", "\t"}

\* String.prototype.trimStart: white space is removed at the front only
trimLeadingOnly(s) ==
  LET keep == {i \in 1..Len(s) : s[i] \notin WhiteSpace}
  IN IF keep = {} THEN <<>>
     ELSE SubSeq(s, CHOOSE i \in keep : \A j \in keep : i <= j, Len(s))

\* String.prototype.trim
trim(s) ==
  LET keep == {i \in 1..Len(s) : s[i] \notin WhiteSpace}
  IN IF keep = {} THEN <<>>
     ELSE SubSeq(s, CHOOSE i \in keep : \A j \in keep : i <= j,
                    CHOOSE i \in keep : \A j \in keep : i >= j)

---------------------------------------------------------------------------
(* JavaScript values and call outcomes *)

Str(s) == [type |-> "string", chars |-> s]
Undefined == [type |-> "undefined"]
Number(n) == [type |-> "number", n |-> n]

Return(v) == [threw |-> FALSE, value |-> v]
\* target.toLowerCase() on a value that is no string
TypeError == [threw |-> TRUE]

---------------------------------------------------------------------------
(* SearchService.subsequenceMatchScore *)

\* the loop with the reset of consecutiveMatches (the else branch) left out
RECURSIVE subsequenceLoopNoReset(_, _, _, _, _, _)
subsequenceLoopNoReset(search, text, i, searchIndex, consecutiveMatches, maxConsecutive) ==
  IF ~(i < Len(text) /\ searchIndex < Len(search))
  THEN [searchIndex |-> searchIndex, maxConsecutive |-> maxConsecutive]
  ELSE IF text[i + 1] = search[searchIndex + 1]
  THEN subsequenceLoopNoReset(search, text, i + 1, searchIndex + 1,
                              consecutiveMatches + 1,
                              MathMax(maxConsecutive, consecutiveMatches + 1))
  ELSE subsequenceLoopNoReset(search, text, i + 1, searchIndex,
                              consecutiveMatches, maxConsecutive)

\* the for loop: i and searchIndex are 0-based as in the code
RECURSIVE subsequenceLoop(_, _, _, _, _, _)
subsequenceLoop(search, text, i, searchIndex, consecutiveMatches, maxConsecutive) ==
  IF ~(i < Len(text) /\ searchIndex < Len(search))
  THEN [searchIndex |-> searchIndex, maxConsecutive |-> maxConsecutive]
  ELSE IF text[i + 1] = search[searchIndex + 1]
  THEN subsequenceLoop(search, text, i + 1, searchIndex + 1,
                       consecutiveMatches + 1,
                       MathMax(maxConsecutive, consecutiveMatches + 1))
  ELSE subsequenceLoop(search, text, i + 1, searchIndex, 0, maxConsecutive)

subsequenceMatchScore(search, text) ==
  LET end == subsequenceLoop(search, text, 0, 0, 0, 0)
  IN IF end.searchIndex = Len(search)
     THEN LET baseScore == Div(Rat(end.searchIndex, 1), Rat(Len(text), 1))
              consecutiveBonus == Div(Rat(end.maxConsecutive, 1), Rat(Len(search), 1))
          IN Div(Plus(baseScore, consecutiveBonus), Rat(2, 1))
     ELSE Rat(0, 1)

---------------------------------------------------------------------------
(* SearchService.levenshteinDistance *)

\* the cell with the replace neighbour left out of the minimum
editCellNoReplace(same, delete, insert, replace) ==
  IF same THEN replace ELSE 1 + (IF delete <= insert THEN delete ELSE insert)

\* one cell of the matrix from its three neighbours
editCell(same, delete, insert, replace) ==
  IF same THEN replace ELSE 1 + MathMin3(delete, insert, replace)

levenshteinDistance(str1, str2) ==
  LET m == Len(str1)
      n == Len(str2)
      dp[i \in 0..m, j \in 0..n] ==
        IF i = 0 THEN j
        ELSE IF j = 0 THEN i
        ELSE editCell(str1[i] = str2[j], dp[i - 1, j], dp[i, j - 1], dp[i - 1, j - 1])
  IN dp[m, n]

---------------------------------------------------------------------------
(* SearchService.fuzzyMatchScore *)

\* the prefix test in one direction only
prefixOneWay(text, search) == startsWith(text, search)

\* text.startsWith(search) || search.startsWith(text)
prefixEitherWay(text, search) ==
  startsWith(text, search) \/ startsWith(search, text)

\* the subsequence tier without its 0.3 weight
subsequenceTierUnweighted(subsequenceScore) ==
  Plus(Rat(1, 2), subsequenceScore)

\* 0.5 + (subsequenceScore * 0.3)
subsequenceTierScore(subsequenceScore) ==
  Plus(Rat(1, 2), Times(subsequenceScore, Rat(3, 10)))

\* similarity > 0.4 ? similarity * 0.7 : 0
editTierScore(distance, maxLen) ==
  LET similarity == Minus(Rat(1, 1), Div(Rat(distance, 1), Rat(maxLen, 1)))
  IN IF Gt(similarity, Rat(4, 10)) THEN Times(similarity, Rat(7, 10)) ELSE Rat(0, 1)

\* the return statement that fuzzyMatchScore leaves by, on lowercased inputs
returnSite(search, text) ==
  IF text = search THEN "perfect"
  ELSE IF includes(text, search) THEN "substring"
  ELSE IF prefixEitherWay(text, search) THEN "prefix"
  ELSE IF Gt(subsequenceMatchScore(search, text), Rat(0, 1)) THEN "subsequence"
  ELSE IF MathMax(Len(search), Len(text)) = 0 THEN "maxLenZero"
  ELSE "levenshtein"

\* searchTerm is a string (a character sequence), target any value
fuzzyMatchScore(term, value) ==
  IF value.type # "string" THEN TypeError
  ELSE
    LET search == toLowerCase(term)
        text == toLowerCase(value.chars)
        leftBy == returnSite(search, text)
    IN Return(
         CASE leftBy = "perfect" -> Rat(1, 1)
           [] leftBy = "substring" -> Rat(9, 10)
           [] leftBy = "prefix" -> Rat(85, 100)
           [] leftBy = "subsequence" ->
                subsequenceTierScore(subsequenceMatchScore(search, text))
           [] leftBy = "maxLenZero" -> Rat(0, 1)
           [] OTHER ->
                editTierScore(levenshteinDistance(search, text),
                              MathMax(Len(search), Len(text))))

\* the tier deciding a call on two strings
fuzzyMatchSite(term, chars) == returnSite(toLowerCase(term), toLowerCase(chars))

---------------------------------------------------------------------------
(* SearchService.searchEmployees *)

\* private fuzzyThreshold = 0.3
fuzzyThreshold == Rat(3, 10)

\* String(v) of a template literal's substitution
toStringValue(v) ==
  CASE v.type = "string" -> v.chars
    [] v.type = "undefined" -> <<"u","n","d","e","f","i","n","e","d">>
    [] OTHER -> <<"7">>

\* `${employee.first_name} ${employee.last_name}`
fullName(employee) ==
  Str(toStringValue(employee.first_name) \o <<" ">> \o toStringValue(employee.last_name))

\* the scores array: its elements are evaluated in order, and the first call
\* that throws ends the evaluation
fieldScores(term, employee) ==
  << fuzzyMatchScore(term, employee.first_name),
     fuzzyMatchScore(term, employee.last_name),
     fuzzyMatchScore(term, employee.email),
     fuzzyMatchScore(term, employee.role),
     fuzzyMatchScore(term, employee.department),
     fuzzyMatchScore(term, employee.status),
     fuzzyMatchScore(term, fullName(employee)) >>

\* the smallest element, in place of the largest
RECURSIVE mathMin(_)
mathMin(scores) ==
  IF Len(scores) = 1 THEN scores[1]
  ELSE LET rest == mathMin(Tail(scores))
       IN IF ~IsFinite(scores[1]) \/ ~IsFinite(rest) THEN NaN
          ELSE IF Gt(rest, scores[1]) THEN scores[1] ELSE rest

\* Math.max(...scores) on a non-empty list of numbers
RECURSIVE mathMax(_)
mathMax(scores) ==
  IF Len(scores) = 1 THEN scores[1]
  ELSE CHOOSE max \in
         { IF ~IsFinite(scores[1]) \/ ~IsFinite(rest) THEN NaN
           ELSE IF Gt(rest, scores[1]) THEN rest ELSE scores[1] :
             rest \in {mathMax(Tail(scores))} } : TRUE

\* one iteration of the for loop up to bestScore: a thrown TypeError, or the
\* employee's best score
bestScore(term, employee) ==
  CHOOSE outcome \in
    { IF \E k \in 1..Len(scores) : scores[k].threw THEN TypeError
      ELSE Return(mathMax([k \in 1..Len(scores) |-> scores[k].value] \o <<>>)) :
        scores \in {fieldScores(term, employee)} } : TRUE

\* the comparator with its operands exchanged: ascending
compareAscending(a, b) ==
  IF Gt(a.score, b.score) THEN 1
  ELSE IF Gt(b.score, a.score) THEN -1
  ELSE 0

\* (a, b) => b.score - a.score, by its sign
compareFn(a, b) ==
  IF Gt(b.score, a.score) THEN 1
  ELSE IF Gt(a.score, b.score) THEN -1
  ELSE 0

\* a sort that puts elements comparing equal in reverse order
sortTiesReversed(results) ==
  LET n == Len(results)
      before(i) == {j \in 1..n :
                      \/ compareFn(results[j], results[i]) < 0
                      \/ compareFn(results[j], results[i]) = 0 /\ j > i}
  IN [k \in 1..n |-> results[CHOOSE i \in 1..n : Cardinality(before(i)) = k - 1]]

\* results.sort(compareFn): Array.prototype.sort is stable, so an element
\* goes after those that compare lower and those that compare equal and
\* stand before it
sort(results) ==
  CHOOSE sorted \in
    { [k \in 1..Len(list) |-> list[CHOOSE i \in 1..Len(list) : place[i] = k]] \o <<>> :
        list \in {results \o <<>>},
        place \in
          { [i \in 1..Len(results) |->
               1 + Cardinality({j \in 1..Len(results) :
                                  \/ compareFn(results[j], results[i]) < 0
                                  \/ /\ compareFn(results[j], results[i]) = 0
                                     /\ j < i})] \o <<>> } } : TRUE

\* only the empty string counts as no search term
emptyTerm(term) == term = <<>>

\* !searchTerm.trim()
blankTerm(term) == trim(term) = <<>>

searchEmployees(employeeList, rawTerm) ==
  IF blankTerm(rawTerm) THEN Return(employeeList)
  ELSE
    CHOOSE outcome \in
      { IF \E i \in 1..Len(best) : best[i].threw THEN TypeError
        ELSE
          LET scored == [i \in 1..Len(best) |->
                           [employee |-> employeeList[i], score |-> best[i].value]]
              meets(r) == Ge(r.score, fuzzyThreshold)
          IN CHOOSE returned \in
               { Return([k \in 1..Len(results) |-> results[k].employee] \o <<>>) :
                   results \in {sort(SelectSeq(scored, meets))} } : TRUE :
          best \in {[i \in 1..Len(employeeList) |->
                       bestScore(trim(rawTerm), employeeList[i])] \o <<>>} } : TRUE

---------------------------------------------------------------------------
(* DataTableComponent: the fields after construction *)

\* The arrays the component's fields refer to: "A" the array allEmployees
\* holds, "F" the array searchEmployees returned last, "D" the array slice
\* returned last.  A field holds a reference, heap the elements of each array.
\* pendingTerm is the value debounceTime holds back (<<>> when none, else
\* <<value>>), lastEmitted the value distinctUntilChanged passed last,
\* inFlight the number of getEmployees subscriptions awaiting delivery, and
\* loaded the array the service delivered last, as it was delivered.
Arrays == {"A", "F", "D"}

Constructed ==
  /\ heap = [a \in Arrays |-> <<>>]
  /\ allEmployees = "A"
  /\ filteredEmployees = "F"
  /\ displayedEmployees = "D"
  /\ sortState = [column |-> "first_name", direction |-> "asc"]
  /\ currentPage = 1
  /\ totalPages = 0
  /\ isLoading = TRUE
  /\ errorMessage = ""
  /\ pendingTerm = <<>>
  /\ lastEmitted = <<>>
  /\ searchSubscription = "null"
  /\ inFlight = 0
  /\ loaded = <<>>

---------------------------------------------------------------------------
(* Score harness: fuzzyMatchScore applied to a pair of strings, then to the *)
(* same pair in the other order                                            *)

Alphabet == {"a", "b", "A"}
Strings == UNION {[1..n -> Alphabet] : n \in 0..MaxLen}

ExamplePairs ==
  { <<<<"e","n","g","r">>, <<"e","n","g","i","n","e","e","r","i","n","g">>>>,
    <<<<"j","o","n">>, <<"J","o","h","n">>>>,
    <<<<"j","o","n">>, <<"J","o","n">>>>,
    <<<<"x","y","z","1","2","3">>, <<"m","a","n","a","g","e","r">>>>,
    <<<<"c","a","t">>, <<"c","a","t","e","g","o","r","y">>>>,
    <<<<"c","a","t","e","g","o","r","y">>, <<"c","a","t">>>> }

NoResult == [threw |-> FALSE, value |-> NaN]

InitScore ==
  /\ \E p \in (Strings \X Strings) \cup ExamplePairs :
       /\ query = p[1]
       /\ target = p[2]
  /\ result = NoResult
  /\ site = "none"
  /\ swapped = NoResult
  /\ swappedSite = "none"
  /\ pc = "call"
  /\ employees = <<>>
  /\ searchTerm = <<>>
  /\ ranked = Return(<<>>)
  /\ reranked = Return(<<>>)
  /\ paddedTerm = <<>>
  /\ paddedRanked = Return(<<>>)
  /\ Constructed

Score ==
  /\ pc = "call"
  /\ result' = fuzzyMatchScore(query, Str(target))
  /\ site' = fuzzyMatchSite(query, target)
  /\ pc' = "returned"
  /\ UNCHANGED <<query, target, swapped, swappedSite, rankVars, tableVars>>

\* fuzzyMatchScore(target, query): the same two strings, exchanged
ScoreSwapped ==
  /\ pc = "returned"
  /\ swapped' = fuzzyMatchScore(target, Str(query))
  /\ swappedSite' = fuzzyMatchSite(target, query)
  /\ pc' = "swapped"
  /\ UNCHANGED <<query, target, result, site, rankVars, tableVars>>

NextScore == Score \/ ScoreSwapped

SpecScore == InitScore /\ [][NextScore]_vars

---------------------------------------------------------------------------
(* Reference notions the claims about fuzzyMatchScore are stated in *)

Returned == pc = "returned"
lowQuery == toLowerCase(query)
lowTarget == toLowerCase(target)

\* q occurs in t as a contiguous block
IsInfix(q, t) ==
  \E a \in 0..Len(t) : \E b \in a..Len(t) : SubSeq(t, a + 1, b) = q

\* p is an initial segment of s
IsPrefix(p, s) == \E k \in 0..Len(s) : SubSeq(s, 1, k) = p

\* the k-th smallest element of a set of integers
Nth(S, k) == CHOOSE x \in S : Cardinality({y \in S : y <= x}) = k

\* the order-preserving placements of q's characters on equal characters of
\* t, each given by the set of positions of t it uses
Embeddings(q, t) ==
  {S \in SUBSET (1..Len(t)) :
     /\ Cardinality(S) = Len(q)
     /\ \A i \in 1..Len(q) : t[Nth(S, i)] = q[i]}

IsSubsequence(q, t) == Embeddings(q, t) # {}

\* the leftmost placement: every character as early as any placement has it
Leftmost(q, t) ==
  CHOOSE S \in Embeddings(q, t) :
    \A T \in Embeddings(q, t) : \A i \in 1..Len(q) : Nth(S, i) <= Nth(T, i)

\* the longest block of query characters the leftmost placement puts on
\* adjacent positions of t
LongestRun(q, t) ==
  LET S == Leftmost(q, t)
      runs == {len \in 1..Len(q) :
                 \E i \in 1..(Len(q) - len + 1) :
                   \A k \in i..(i + len - 2) : Nth(S, k + 1) = Nth(S, k) + 1}
  IN CHOOSE len \in runs : \A other \in runs : other <= len

\* the minimum number of unit-cost insertions, deletions and substitutions
\* turning a into b: over the order-preserving pairings of kept positions, the
\* unpaired characters of a (deleted) and of b (inserted) and the unequal
\* pairs (substituted)
MinimumEdits(a, b) ==
  LET costs == {(Len(a) - Cardinality(S)) + (Len(b) - Cardinality(T))
                 + Cardinality({k \in 1..Cardinality(S) : a[Nth(S, k)] # b[Nth(T, k)]}) :
                 <<S, T>> \in {p \in (SUBSET (1..Len(a))) \X (SUBSET (1..Len(b))) :
                                Cardinality(p[1]) = Cardinality(p[2])}}
  IN CHOOSE c \in costs : \A other \in costs : c <= other

Between(lo, x, hi) == Ge(x, lo) /\ Ge(hi, x)

---------------------------------------------------------------------------
(* Claims about fuzzyMatchScore, under SpecScore *)

\* C1: for every pair of strings, the empty string included, the call
\* returns (it does not throw) a finite number s with 0 <= s <= 1.
ScoreIsBoundedAndTotal ==
  Returned =>
    /\ ~result.threw
    /\ IsFinite(result.value)
    /\ Between(Rat(0, 1), result.value, Rat(1, 1))

\* C1 witness: the call on two empty strings has returned its score
EmptyPairScored ==
  Returned /\ query = <<>> /\ target = <<>> /\ NumEq(result.value, Rat(1, 1))

\* C7: the first tier that fires decides, on lowercased inputs: 1.0 exactly
\* when the lowercased strings are equal; 0.9 exactly when they are unequal
\* and the target contains the query; 0.85 exactly when neither holds and one
\* is a prefix of the other; a later tier decides only when none of the three
\* fires.
FirstTiersDecide ==
  Returned =>
    LET equal == lowQuery = lowTarget
        contains == IsInfix(lowQuery, lowTarget)
        prefixed == IsPrefix(lowQuery, lowTarget) \/ IsPrefix(lowTarget, lowQuery)
    IN /\ ~result.threw
       /\ NumEq(result.value, Rat(1, 1)) <=> equal
       /\ NumEq(result.value, Rat(9, 10)) <=> (~equal /\ contains)
       /\ NumEq(result.value, Rat(85, 100)) <=> (~equal /\ ~contains /\ prefixed)
       /\ (site \in {"subsequence", "maxLenZero", "levenshtein"})
            <=> (~equal /\ ~contains /\ ~prefixed)

\* C7 witness: the prefix tier has decided a call whose target, in another
\* letter case, is a proper prefix of the query
PrefixTierDecided ==
  /\ Returned
  /\ query = <<"a", "b">>
  /\ target = <<"A">>
  /\ site = "prefix"
  /\ NumEq(result.value, Rat(85, 100))

\* C8 (as claimed): for an empty target and a non-empty query the call falls
\* through to the edit-distance tier, and its result is that tier's score
\* with maxLen = len(query).
EmptyTargetReachesEditTier ==
  (Returned /\ target = <<>> /\ query # <<>>) =>
    /\ site = "levenshtein"
    /\ NumEq(result.value,
             editTierScore(MinimumEdits(lowQuery, lowTarget), Len(query)))

\* C9: when the subsequence tier decides (the query is an ordered
\* subsequence of the target and tiers 1-3 did not fire) the score is
\* 0.5 + 0.3 * ((len(query)/len(target) + longestRun/len(query)) / 2), above
\* 0.5 and at most 0.8; "engr" against "engineering" and "jon" against "John"
\* are decided by this tier, strictly between 0.5 and 0.8.
SubsequenceTierScoreIs ==
  Returned =>
    /\ (/\ IsSubsequence(lowQuery, lowTarget)
        /\ lowQuery # lowTarget
        /\ ~IsInfix(lowQuery, lowTarget)
        /\ ~IsPrefix(lowTarget, lowQuery))
       =>
         /\ site = "subsequence"
         /\ NumEq(result.value,
                  Plus(Rat(1, 2),
                       Times(Rat(3, 10),
                             Div(Plus(Rat(Len(query), Len(target)),
                                      Rat(LongestRun(lowQuery, lowTarget), Len(query))),
                                 Rat(2, 1)))))
         /\ Gt(result.value, Rat(1, 2))
         /\ Ge(Rat(8, 10), result.value)
    /\ site = "subsequence" => IsSubsequence(lowQuery, lowTarget)
    /\ (\/ /\ query = <<"e","n","g","r">>
           /\ target = <<"e","n","g","i","n","e","e","r","i","n","g">>
        \/ /\ query = <<"j","o","n">>
           /\ target = <<"J","o","h","n">>)
       =>
         /\ site = "subsequence"
         /\ Gt(result.value, Rat(1, 2))
         /\ Gt(Rat(8, 10), result.value)

\* C9 witness: "jon" against "John" decided by the subsequence tier, with a
\* longest run (2) shorter than the query
JonJohnBySubsequence ==
  /\ Returned
  /\ query = <<"j","o","n">>
  /\ target = <<"J","o","h","n">>
  /\ site = "subsequence"
  /\ LongestRun(lowQuery, lowTarget) = 2
  /\ NumEq(result.value, Rat(57, 80))

\* C10: the edit-distance tier is reached only when the query is no ordered
\* subsequence of the target; there, with d the minimum number of edits and
\* maxLen the longer length, the score is 0.7 * (1 - d/maxLen) if
\* 1 - d/maxLen > 0.4 and 0 otherwise; "xyz123" against "manager" scores 0.
EditTierScoreIs ==
  Returned =>
    /\ site = "levenshtein" =>
         LET d == MinimumEdits(lowQuery, lowTarget)
             maxLen == IF Len(query) >= Len(target) THEN Len(query) ELSE Len(target)
         IN /\ ~IsSubsequence(lowQuery, lowTarget)
            /\ NumEq(result.value,
                     IF 10 * (maxLen - d) > 4 * maxLen
                     THEN Rat(7 * (maxLen - d), 10 * maxLen)
                     ELSE Rat(0, 1))
    /\ (/\ query = <<"x","y","z","1","2","3">>
        /\ target = <<"m","a","n","a","g","e","r">>)
       => (site = "levenshtein" /\ NumEq(result.value, Rat(0, 1)))

\* C10 witness: the edit-distance tier has decided with a nonzero score, on
\* strings one substitution apart
EditTierScoredNonzero ==
  /\ Returned
  /\ query = <<"a","a","b">>
  /\ target = <<"a","b","b">>
  /\ site = "levenshtein"
  /\ MinimumEdits(lowQuery, lowTarget) = 1
  /\ NumEq(result.value, Rat(14, 30))

\* the two calls of a pair have returned
Exchanged == pc = "swapped"
Cat == <<"c","a","t">>
Category == <<"c","a","t","e","g","o","r","y">>
ContainmentOrPrefix == {"substring", "prefix"}

\* C11 as stated: score("cat", "category") and score("category", "cat")
\* differ with at least one of the two calls decided by the edit-distance
\* tier, and two calls that are both decided by the containment or prefix
\* tiers return the same score.
AsymmetryArisesAtEditTier ==
  Exchanged =>
    /\ (query = Cat /\ target = Category)
       => /\ ~NumEq(result.value, swapped.value)
          /\ site = "levenshtein" \/ swappedSite = "levenshtein"
    /\ (site \in ContainmentOrPrefix /\ swappedSite \in ContainmentOrPrefix)
       => NumEq(result.value, swapped.value)

\* C11 amended: score("cat", "category") is 0.9 by the containment tier and
\* score("category", "cat") is 0.85 by the prefix tier, so neither call is
\* decided by the edit-distance tier; and whenever both argument orders are
\* decided by the containment or prefix tiers, one is decided by each and the
\* two scores are 0.9 and 0.85, never equal.
AsymmetryArisesAtPrefixTier ==
  Exchanged =>
    /\ (query = Cat /\ target = Category)
       => /\ site = "substring" /\ NumEq(result.value, Rat(9, 10))
          /\ swappedSite = "prefix" /\ NumEq(swapped.value, Rat(85, 100))
    /\ (site \in ContainmentOrPrefix /\ swappedSite \in ContainmentOrPrefix)
       => /\ site # swappedSite
          /\ ~NumEq(result.value, swapped.value)
          /\ LET first == IF site = "substring" THEN result ELSE swapped
                 second == IF site = "substring" THEN swapped ELSE result
             IN /\ NumEq(first.value, Rat(9, 10))
                /\ NumEq(second.value, Rat(85, 100))
                /\ IF site = "substring" THEN IsPrefix(lowQuery, lowTarget)
                                         ELSE IsPrefix(lowTarget, lowQuery)

\* C11 witness: both orders of "cat" and "category" have been scored, the
\* scores differ and no call reached the edit-distance tier
CatCategoryBothWays ==
  /\ Exchanged
  /\ query = Cat
  /\ target = Category
  /\ ~NumEq(result.value, swapped.value)
  /\ site # "levenshtein"
  /\ swappedSite # "levenshtein"

---------------------------------------------------------------------------
(* Ranking harness: searchEmployees applied to a list of employees, then to *)
(* its own output with the same search term                                *)

Fields == {"first_name", "last_name", "email", "role", "department", "status"}

Plain ==
  [first_name |-> Str(<<"x">>), last_name |-> Str(<<"y">>), email |-> Str(<<"z">>),
   role |-> Str(<<"z">>), department |-> Str(<<"z">>), status |-> Str(<<"z">>)]

\* the field contents of the employees the harness loads: one field set apart
\* from Plain's, by a string of each tier or by a value that is no string
Contents ==
  { Plain,
    [Plain EXCEPT !.first_name = Str(<<"a","b">>)],
    [Plain EXCEPT !.last_name = Str(<<"A","b">>)],
    [Plain EXCEPT !.email = Str(<<"a","a","b">>)],
    [Plain EXCEPT !.department = Str(<<>>)],
    [Plain EXCEPT !.status = Str(<<"a","x","b">>)],
    [Plain EXCEPT !.first_name = Str(<<"a">>), !.last_name = Str(<<"b">>)],
    [Plain EXCEPT !.role = Str(<<"b","b">>)],
    [Plain EXCEPT !.email = Undefined, !.status = Number(7)] }

Employee(id, c) ==
  [id |-> id, first_name |-> c.first_name, last_name |-> c.last_name,
   email |-> c.email, role |-> c.role, department |-> c.department,
   status |-> c.status]

\* the loaded lists: employee i carries id i
EmployeeLists ==
  UNION {{[i \in 1..n |-> Employee(i, cs[i])] : cs \in [1..n -> Contents]} :
           n \in 0..MaxRecords}

SearchTerms ==
  { <<>>, <<" ", "\t">>,
    <<"a","b">>, <<" ","A","b"," ">>, <<"a"," ","b">>, <<"b">> }

InitRank ==
  /\ employees \in EmployeeLists
  /\ searchTerm \in SearchTerms
  /\ ranked = Return(<<>>)
  /\ reranked = Return(<<>>)
  /\ paddedTerm = <<>>
  /\ paddedRanked = Return(<<>>)
  /\ pc = "loaded"
  /\ query = <<>>
  /\ target = <<>>
  /\ result = NoResult
  /\ site = "none"
  /\ swapped = NoResult
  /\ swappedSite = "none"
  /\ Constructed

\* searchEmployees(employees, searchTerm)
Search ==
  /\ pc = "loaded"
  /\ ranked' = searchEmployees(employees, searchTerm)
  /\ pc' = "ranked"
  /\ UNCHANGED <<employees, searchTerm, reranked, paddedTerm, paddedRanked,
                 scoreVars, tableVars>>

\* searchEmployees(<the list returned>, searchTerm)
SearchAgain ==
  /\ pc = "ranked"
  /\ ~ranked.threw
  /\ reranked' = searchEmployees(ranked.value, searchTerm)
  /\ pc' = "reranked"
  /\ UNCHANGED <<employees, searchTerm, ranked, paddedTerm, paddedRanked,
                 scoreVars, tableVars>>

NextRank == Search \/ SearchAgain

SpecRank == InitRank /\ [][NextRank]_vars

---------------------------------------------------------------------------
(* Reference notions the claims about searchEmployees are stated in *)

Ranked == pc \in {"ranked", "reranked"}

\* the query is non-empty after trimming
NonBlank(term) == \E i \in 1..Len(term) : term[i] \notin WhiteSpace

\* every matched field of every record is a string
WellTyped(list) ==
  \A i \in 1..Len(list) : \A f \in Fields : list[i][f].type = "string"

\* the seven scores of a well-typed record against a term
SevenScores(term, e) ==
  {fuzzyMatchScore(term, e[f]).value : f \in Fields}
    \cup {fuzzyMatchScore(term, Str(e.first_name.chars \o <<" ">> \o e.last_name.chars)).value}

\* the record score: the maximum of the seven
RecordScore(term, e) ==
  LET seven == SevenScores(term, e)
  IN CHOOSE s \in seven : \A other \in seven : Ge(s, other)

\* where a record stands in a list that holds it once
PositionIn(list, e) == CHOOSE i \in 1..Len(list) : list[i] = e

Ids(list) == [k \in 1..Len(list) |-> list[k].id]

\* a list with every value that is no string replaced by the empty string
Sanitised(list) ==
  [i \in 1..Len(list) |->
     [f \in DOMAIN list[i] |->
        IF f \in Fields /\ list[i][f].type # "string" THEN Str(<<>>) ELSE list[i][f]]]

---------------------------------------------------------------------------
(* Claims about searchEmployees, under SpecRank *)

\* C2: for a query that is non-empty after trimming (and records whose
\* fields are strings), the call returns exactly the records whose record
\* score, the maximum of the seven field scores against the trimmed query,
\* is >= 0.3: none below 0.3 is returned, none at or above 0.3 is left out.
ReturnsExactlyThresholded ==
  (Ranked /\ NonBlank(searchTerm) /\ WellTyped(employees)) =>
    LET term == trim(searchTerm)
        kept == {i \in 1..Len(employees) :
                   Ge(RecordScore(term, employees[i]), Rat(3, 10))}
    IN /\ ~ranked.threw
       /\ Len(ranked.value) = Cardinality(kept)
       /\ \A i \in kept : \E k \in 1..Len(ranked.value) : ranked.value[k] = employees[i]
       /\ \A k \in 1..Len(ranked.value) :
            \E i \in kept : ranked.value[k] = employees[i]

\* C2 witness: of three loaded records, the search has kept two and left out
\* the one that scores below the threshold
KeptTwoOfThree ==
  /\ pc = "ranked"
  /\ searchTerm = <<"a","b">>
  /\ WellTyped(employees)
  /\ Len(employees) = 3
  /\ ~ranked.threw
  /\ Ids(ranked.value) = <<1, 3>>

\* C3: for a non-blank query the returned sequence is ordered by record
\* score descending, and returned records of equal record score stand in
\* their input order.
RankedDescendingStable ==
  (Ranked /\ NonBlank(searchTerm) /\ ~ranked.threw) =>
    LET term == trim(searchTerm)
        out == ranked.value
    IN \A k \in 1..Len(out) : \A l \in (k + 1)..Len(out) :
         LET higher == RecordScore(term, out[k])
             lower == RecordScore(term, out[l])
         IN /\ Ge(higher, lower)
            /\ NumEq(higher, lower)
                 => PositionIn(employees, out[k]) < PositionIn(employees, out[l])

\* C3 witness: the search has moved the best record in front of two records
\* of equal score, which keep their input order
BestFirstTiesInOrder ==
  /\ pc = "ranked"
  /\ searchTerm = <<"a","b">>
  /\ ~ranked.threw
  /\ Ids(ranked.value) = <<2, 1, 3>>
  /\ NumEq(RecordScore(<<"a","b">>, employees[1]), RecordScore(<<"a","b">>, employees[3]))
  /\ Gt(RecordScore(<<"a","b">>, employees[2]), RecordScore(<<"a","b">>, employees[1]))

\* C4: for an empty or whitespace-only query the call returns the input
\* sequence: same length, same records, same order, whatever the fields hold.
BlankQueryPassesThrough ==
  (Ranked /\ ~NonBlank(searchTerm)) => ranked = Return(employees)

\* C4 witness: a whitespace-only query on a list that holds a record with a
\* missing field and records a ranking would reorder
WhitespaceQueryPassedThrough ==
  /\ pc = "ranked"
  /\ searchTerm = <<" ", "\t">>
  /\ Len(employees) = 3
  /\ employees[1].email = Undefined
  /\ employees[2].department = Str(<<>>)
  /\ employees[3].first_name = Str(<<"a","b">>)
  /\ ranked = Return(employees)

\* C5: ranking is idempotent: searchEmployees applied to its own output with
\* the same query returns that output, as a sequence.
RankingIdempotent ==
  pc = "reranked" => reranked = ranked

\* C5 witness: a second search of a list the first search filtered and
\* reordered, with two records of equal score in it
RerankedAfterReorder ==
  /\ pc = "reranked"
  /\ searchTerm = <<"a","b">>
  /\ Len(employees) = 3
  /\ Ids(ranked.value) = <<3, 2>>
  /\ ~reranked.threw
  /\ Ids(reranked.value) = <<3, 2>>

\* C6 (as claimed): the call is total over records with missing or
\* non-string field values: such a field is scored as the empty string, the
\* call does not fail, and the records are ranked as they would be with the
\* empty string in its place.
MalformedFieldsScoreAsEmpty ==
  Ranked =>
    /\ ~ranked.threw
    /\ Ids(ranked.value) = Ids(searchEmployees(Sanitised(employees), searchTerm).value)


---------------------------------------------------------------------------
(* Padding harness: searchEmployees applied to a search term with white    *)
(* space put around it, then to the term with its white space removed      *)

Pads == {<<>>, <<" ">>, <<"\t", " ">>}

PaddedLists ==
  UNION {{[i \in 1..n |-> Employee(i, cs[i])] : cs \in [1..n -> Contents]} :
           n \in 0..MaxPadRecords}

\* the front of s without its leading white space
RECURSIVE StripLeft(_)
StripLeft(s) ==
  IF s # <<>> /\ Head(s) \in WhiteSpace THEN StripLeft(Tail(s)) ELSE s

Reverse(s) == [i \in 1..Len(s) |-> s[Len(s) + 1 - i]]

\* s without the white space at its two ends
Stripped(s) == Reverse(StripLeft(Reverse(StripLeft(s))))

InitPad ==
  /\ employees \in PaddedLists
  /\ searchTerm \in SearchTerms
  /\ \E w1 \in Pads, w2 \in Pads : paddedTerm = w1 \o searchTerm \o w2
  /\ ranked = Return(<<>>)
  /\ reranked = Return(<<>>)
  /\ paddedRanked = Return(<<>>)
  /\ pc = "loaded"
  /\ query = <<>>
  /\ target = <<>>
  /\ result = NoResult
  /\ site = "none"
  /\ swapped = NoResult
  /\ swappedSite = "none"
  /\ Constructed

\* searchEmployees(employees, w1 + searchTerm + w2)
SearchPadded ==
  /\ pc = "loaded"
  /\ paddedRanked' = searchEmployees(employees, paddedTerm)
  /\ pc' = "padded"
  /\ UNCHANGED <<employees, searchTerm, ranked, reranked, paddedTerm,
                 scoreVars, tableVars>>

\* searchEmployees(employees, <searchTerm without the white space at its ends>)
SearchTrimmed ==
  /\ pc = "padded"
  /\ ranked' = searchEmployees(employees, Stripped(searchTerm))
  /\ pc' = "trimmed"
  /\ UNCHANGED <<employees, searchTerm, reranked, paddedTerm, paddedRanked,
                 scoreVars, tableVars>>

NextPad == SearchPadded \/ SearchTrimmed

SpecPad == InitPad /\ [][NextPad]_vars

---------------------------------------------------------------------------
(* Claims about white space around the search term, under SpecPad *)

\* C12: white space at the two ends of the query never changes the result:
\* searchEmployees(R, w1 + q + w2) has the same outcome, and returns the same
\* sequence of records, as searchEmployees(R, trim(q)).
PaddingIsInsignificant ==
  pc = "trimmed" => paddedRanked = ranked

\* C12 witness: a query with white space inside it and added on both sides
\* has been searched both ways, and the search kept some records and
\* dropped others
PaddedBothSidesFiltered ==
  /\ pc = "trimmed"
  /\ searchTerm = <<" ","A","b"," ">>
  /\ paddedTerm = <<"\t"," "," ","A","b"," "," ">>
  /\ ~ranked.threw
  /\ Len(ranked.value) = 1
  /\ Len(employees) = 2


---------------------------------------------------------------------------
(* DataTableComponent: sorting and paging of the filtered array *)

\* pageSize = 10
pageSize == 10

\* the characters of the model in the order of their UTF-16 code units
CodeUnitOrder ==
  << "\t", " ", "1", "2", "3", "7", "A", "B", "J",
     "a", "b", "c", "d", "e", "f", "g", "h", "i", "j", "k", "l", "m",
     "n", "o", "p", "q", "r", "s", "t", "u", "v", "w", "x", "y", "z" >>

CharCode(c) == CHOOSE i \in 1..Len(CodeUnitOrder) : CodeUnitOrder[i] = c

\* stringA < stringB on strings: by the first code unit that differs, a
\* proper prefix first
RECURSIVE stringLess(_, _)
stringLess(stringA, stringB) ==
  IF stringB = <<>> THEN FALSE
  ELSE IF stringA = <<>> THEN TRUE
  ELSE IF Head(stringA) = Head(stringB)
       THEN stringLess(Tail(stringA), Tail(stringB))
       ELSE CharCode(Head(stringA)) < CharCode(Head(stringB))

\* a[column]
valueAt(employee, column) ==
  IF column = "id" THEN Number(employee.id) ELSE employee[column]

\* the comparator of sortEmployees
compareColumn(a, b, column, direction) ==
  LET valueA == valueAt(a, column)
      valueB == valueAt(b, column)
  IN IF valueA.type = "number" /\ valueB.type = "number"
     THEN IF direction = "asc" THEN valueA.n - valueB.n ELSE valueB.n - valueA.n
     ELSE LET stringA == toLowerCase(toStringValue(valueA))
              stringB == toLowerCase(toStringValue(valueB))
          IN IF stringLess(stringA, stringB)
             THEN IF direction = "asc" THEN -1 ELSE 1
             ELSE IF stringLess(stringB, stringA)
                  THEN IF direction = "asc" THEN 1 ELSE -1
                  ELSE 0

\* array.sort(comparator of the column and direction): stable, so an
\* element goes after those that compare lower and those that compare equal
\* and stand before it
sortBy(array, column, direction) ==
  CHOOSE sorted \in
    { CHOOSE placed \in
        { [k \in 1..Len(list) |-> list[CHOOSE i \in 1..Len(list) : place[i] = k]] \o <<>> :
            place \in
              { [i \in 1..Len(list) |->
                   1 + Cardinality(
                         {j \in 1..Len(list) :
                            \E c \in {compareColumn(list[j], list[i], column, direction)} :
                              c < 0 \/ (c = 0 /\ j < i)})] \o <<>> } } : TRUE :
        list \in {array \o <<>>} } : TRUE

\* sortEmployees(): this.filteredEmployees is sorted in place; h is the heap
\* and filtered the array this.filteredEmployees refers to
sortEmployees(h, filtered, state) ==
  IF state.column = "" THEN h
  ELSE [h EXCEPT ![filtered] = sortBy(h[filtered], state.column, state.direction)]

\* list.slice(startIndex, endIndex), indices from 0
slice(list, startIndex, endIndex) ==
  LET last == IF endIndex < Len(list) THEN endIndex ELSE Len(list)
  IN IF startIndex >= last THEN <<>> ELSE SubSeq(list, startIndex + 1, last)

\* updateDisplayedEmployees(): this.displayedEmployees becomes a new array
updateDisplayedEmployees(h, filtered, page) ==
  LET startIndex == (page - 1) * pageSize
      endIndex == startIndex + pageSize
  IN [h EXCEPT !["D"] = slice(h[filtered], startIndex, endIndex)]

\* Math.floor(length / size)
mathFloor(length, size) == length \div size

\* Math.ceil(length / size) on a length >= 0 and a size > 0
mathCeil(length, size) == (length + size - 1) \div size

\* an array on the blank-query path that is the input array itself
resultArrayAliased(input, rawTerm) ==
  IF blankTerm(rawTerm) THEN input ELSE "F"

\* the array searchEmployees returns: [...employees] (line 34) and
\* results.map(...) (line 66) are new arrays, never the input
resultArray(input, rawTerm) == "F"


---------------------------------------------------------------------------
(* DataTableComponent: its handlers and the callbacks of its subscriptions *)

\* the fields of employee i of a delivered list
Pattern(i) ==
  CASE i % 7 = 0 -> Plain
    [] i % 2 = 1 -> [Plain EXCEPT !.first_name = Str(<<"B">>)]
    [] OTHER -> [Plain EXCEPT !.first_name = Str(<<"a","b">>)]

Dataset(n) == [i \in 1..n |-> Employee(i, Pattern(i))]

\* the lists getEmployees delivers: as many records as fill no page, a part
\* of a page, one page and more than a page, and a list whose first record
\* came without its email
Datasets ==
  {Dataset(n) : n \in {0, 1, pageSize, pageSize + 1, MaxLoaded}}
    \cup {[Dataset(MaxLoaded) EXCEPT ![1].email = Undefined]}

\* the values typed into the search box
TableTerms == {<<>>, <<" ">>, <<"b">>}

\* the columns whose headers are clicked
SortColumns == {"id", "first_name"}

\* the pages asked for
PageArguments == 0..(mathCeil(MaxLoaded, pageSize) + 1)

Init ==
  /\ Constructed
  /\ pc = "constructed"
  /\ searchTerm = <<>>
  /\ employees = <<>>
  /\ ranked = Return(<<>>)
  /\ reranked = Return(<<>>)
  /\ paddedTerm = <<>>
  /\ paddedRanked = Return(<<>>)
  /\ query = <<>>
  /\ target = <<>>
  /\ result = NoResult
  /\ site = "none"
  /\ swapped = NoResult
  /\ swappedSite = "none"

idle == <<employees, ranked, reranked, paddedTerm, paddedRanked, scoreVars>>

\* applyFilters() with h the heap, all the array this.allEmployees refers
\* to and term this.searchTerm, as the caller has just assigned them: the
\* values of the fields it assigns, or the TypeError thrown by
\* searchEmployees, which leaves the method before its first assignment
applyFilters(h, all, term) ==
  CHOOSE outcome \in
    { IF found.threw
      THEN [threw |-> TRUE]
      ELSE CHOOSE assigned \in
             { [threw |-> FALSE,
                filteredEmployees |-> filtered,
                currentPage |-> 1,
                totalPages |-> mathCeil(Len(sorted[filtered]), pageSize),
                displayedEmployees |-> "D",
                heap |-> updateDisplayedEmployees(sorted, filtered, 1)] :
                 sorted \in {sortEmployees([h EXCEPT ![filtered] = found.value],
                                           filtered, sortState)} } : TRUE :
        found \in {searchEmployees(h[all], term)},
        filtered \in {resultArray(all, term)} } : TRUE

\* the fields after a call of applyFilters, from the heap h of its caller
applied(h, outcome) ==
  IF outcome.threw
  THEN /\ heap' = h
       /\ UNCHANGED <<filteredEmployees, displayedEmployees, currentPage, totalPages>>
  ELSE /\ heap' = outcome.heap
       /\ filteredEmployees' = outcome.filteredEmployees
       /\ displayedEmployees' = outcome.displayedEmployees
       /\ currentPage' = outcome.currentPage
       /\ totalPages' = outcome.totalPages

\* ngOnInit(): setupSearchDebounce() subscribes, loadEmployees() sets the
\* loading state and subscribes to getEmployees()
NgOnInit ==
  /\ pc = "constructed"
  /\ pc' = "initialised"
  /\ searchSubscription' = "open"
  /\ isLoading' = TRUE
  /\ errorMessage' = ""
  /\ inFlight' = inFlight + 1
  /\ UNCHANGED <<heap, allEmployees, filteredEmployees, displayedEmployees,
                 sortState, currentPage, totalPages, pendingTerm, lastEmitted,
                 loaded, searchTerm, idle>>

\* the next callback of loadEmployees, with the list delivered
LoadNext(delivered) ==
  /\ inFlight > 0
  /\ inFlight' = inFlight - 1
  /\ allEmployees' = "A"
  /\ loaded' = delivered
  /\ \E h \in {[heap EXCEPT !["A"] = delivered]} :
       \E outcome \in {applyFilters(h, "A", searchTerm)} :
         /\ applied(h, outcome)
         /\ isLoading' = IF outcome.threw THEN isLoading ELSE FALSE
  /\ UNCHANGED <<sortState, errorMessage, pendingTerm, lastEmitted,
                 searchSubscription, pc, searchTerm, idle>>

\* the error callback of loadEmployees
LoadError ==
  /\ inFlight > 0
  /\ inFlight' = inFlight - 1
  /\ errorMessage' = "Failed to load employee data. Please try again."
  /\ isLoading' = FALSE
  /\ UNCHANGED <<heap, allEmployees, filteredEmployees, displayedEmployees,
                 sortState, currentPage, totalPages, pendingTerm, lastEmitted,
                 searchSubscription, loaded, pc, searchTerm, idle>>

\* retryLoad()
RetryLoad ==
  /\ pc = "initialised"
  /\ inFlight < MaxInFlight
  /\ isLoading' = TRUE
  /\ errorMessage' = ""
  /\ inFlight' = inFlight + 1
  /\ UNCHANGED <<heap, allEmployees, filteredEmployees, displayedEmployees,
                 sortState, currentPage, totalPages, pendingTerm, lastEmitted,
                 searchSubscription, loaded, pc, searchTerm, idle>>


\* onSearchInput(event): the value goes to searchSubject, where debounceTime
\* holds the latest one back; a subject without subscriber drops it
OnSearchInput(value) ==
  /\ pc = "initialised"
  /\ pendingTerm' = IF searchSubscription = "open" THEN <<value>> ELSE pendingTerm
  /\ UNCHANGED <<heap, allEmployees, filteredEmployees, displayedEmployees,
                 sortState, currentPage, totalPages, isLoading, errorMessage,
                 lastEmitted, searchSubscription, inFlight, loaded, pc,
                 searchTerm, idle>>

\* 300 ms after the last input: distinctUntilChanged drops a value equal to
\* the one it passed last, any other reaches the subscriber of
\* setupSearchDebounce.  When applyFilters throws there, the subscription
\* stays open or is closed, as the RxJS version in use decides.
DebounceElapsed ==
  /\ pendingTerm # <<>>
  /\ searchSubscription = "open"
  /\ pendingTerm' = <<>>
  /\ IF lastEmitted = pendingTerm
     THEN UNCHANGED <<heap, filteredEmployees, displayedEmployees, currentPage,
                      totalPages, lastEmitted, searchSubscription, searchTerm>>
     ELSE /\ lastEmitted' = pendingTerm
          /\ searchTerm' = pendingTerm[1]
          /\ \E outcome \in {applyFilters(heap, allEmployees, pendingTerm[1])} :
               /\ applied(heap, outcome)
               /\ IF outcome.threw
                  THEN searchSubscription' \in {"open", "closed"}
                  ELSE UNCHANGED searchSubscription
  /\ UNCHANGED <<allEmployees, sortState, isLoading, errorMessage, inFlight,
                 loaded, pc, idle>>

\* onSort(column)
OnSort(column) ==
  /\ pc = "initialised"
  /\ sortState' = IF sortState.column = column
                  THEN [sortState EXCEPT
                          !.direction = IF sortState.direction = "asc"
                                        THEN "desc" ELSE "asc"]
                  ELSE [column |-> column, direction |-> "asc"]
  /\ \E sorted \in {sortEmployees(heap, filteredEmployees, sortState')} :
       heap' = updateDisplayedEmployees(sorted, filteredEmployees, currentPage)
  /\ displayedEmployees' = "D"
  /\ UNCHANGED <<allEmployees, filteredEmployees, currentPage, totalPages,
                 isLoading, errorMessage, pendingTerm, lastEmitted,
                 searchSubscription, inFlight, loaded, pc, searchTerm, idle>>

\* goToPage(page), the fields it assigns
goToPage(page) ==
  IF page >= 1 /\ page <= totalPages
  THEN /\ currentPage' = page
       /\ heap' = updateDisplayedEmployees(heap, filteredEmployees, page)
       /\ displayedEmployees' = "D"
  ELSE UNCHANGED <<currentPage, heap, displayedEmployees>>

navigationFrame ==
  <<allEmployees, filteredEmployees, sortState, totalPages, isLoading,
    errorMessage, pendingTerm, lastEmitted, searchSubscription, inFlight,
    loaded, pc, searchTerm, idle>>

GoToPage(page) ==
  /\ pc = "initialised"
  /\ goToPage(page)
  /\ UNCHANGED navigationFrame

\* previousPage()
PreviousPage ==
  /\ pc = "initialised"
  /\ goToPage(currentPage - 1)
  /\ UNCHANGED navigationFrame

\* nextPage()
NextPage ==
  /\ pc = "initialised"
  /\ goToPage(currentPage + 1)
  /\ UNCHANGED navigationFrame

\* ngOnDestroy(): the search subscription is closed, and with it the value
\* debounceTime holds back is dropped
NgOnDestroy ==
  /\ pc = "initialised"
  /\ pc' = "destroyed"
  /\ searchSubscription' = "closed"
  /\ pendingTerm' = <<>>
  /\ UNCHANGED <<heap, allEmployees, filteredEmployees, displayedEmployees,
                 sortState, currentPage, totalPages, isLoading, errorMessage,
                 lastEmitted, inFlight, loaded, searchTerm, idle>>

Next ==
  \/ NgOnInit
  \/ \E delivered \in Datasets : LoadNext(delivered)
  \/ LoadError
  \/ RetryLoad
  \/ \E value \in TableTerms : OnSearchInput(value)
  \/ DebounceElapsed
  \/ \E column \in SortColumns : OnSort(column)
  \/ \E page \in PageArguments : GoToPage(page)
  \/ PreviousPage
  \/ NextPage
  \/ NgOnDestroy

Spec == Init /\ [][Next]_vars


---------------------------------------------------------------------------
(* Claims about the data table, under Spec *)

\* the elements of the arrays the three fields refer to
All == heap[allEmployees]
Filtered == heap[filteredEmployees]
Displayed == heap[displayedEmployees]

\* C13: after any sequence of loads, search inputs, column sorts and page
\* navigations, allEmployees holds the records the service delivered last in
\* the order they were delivered, and filteredEmployees is another array
\* than allEmployees (searchEmployees returns a new array on the blank-query
\* path too), so the in-place sort of filteredEmployees never reorders
\* allEmployees.
LoadedOrderIsKept ==
  /\ All = loaded
  /\ filteredEmployees # allEmployees

\* C13 witness: with a blank query passed on by the search box, a column
\* sorted descending and the second page shown, filteredEmployees holds all
\* the loaded records in another order than allEmployees
SortedCopyDiffersFromLoaded ==
  /\ loaded = Dataset(MaxLoaded)
  /\ lastEmitted = << <<" ">> >>
  /\ searchTerm = <<" ">>
  /\ sortState = [column |-> "first_name", direction |-> "desc"]
  /\ currentPage = 2
  /\ Len(Filtered) = Len(All)
  /\ Filtered # All
  /\ All = loaded

\* the positions of filteredEmployees, counted from 1, on a page
OnPage(page) ==
  {i \in 1..Len(Filtered) : (page - 1) * pageSize < i /\ i <= page * pageSize}

PagingConsistent ==
  /\ totalPages * pageSize >= Len(Filtered)
  /\ totalPages = 0 \/ (totalPages - 1) * pageSize < Len(Filtered)
  /\ totalPages >= 0
  /\ 1 <= currentPage
  /\ currentPage <= (IF totalPages > 1 THEN totalPages ELSE 1)
  /\ Len(Displayed) = Cardinality(OnPage(currentPage))
  /\ \A k \in 1..Len(Displayed) :
        Displayed[k] = Filtered[(currentPage - 1) * pageSize + k]

\* a step in which applyFilters runs to its end: in the next callback of a
\* load, or in the subscriber of the debounced search
AppliesFilters ==
  \/ \E delivered \in Datasets :
       /\ loaded' = delivered
       /\ inFlight' = inFlight - 1
       /\ ~searchEmployees(delivered, searchTerm).threw
       /\ LoadNext(delivered)
  \/ /\ DebounceElapsed
     /\ lastEmitted # pendingTerm
     /\ ~searchEmployees(All, pendingTerm[1]).threw

\* a step that is goToPage(page) with a page outside 1..totalPages
GoesOutside ==
  \E page \in PageArguments :
    GoToPage(page) /\ (page < 1 \/ page > totalPages)

\* C14: in every state of the data table totalPages is
\* ceil(len(filteredEmployees) / pageSize), currentPage lies in
\* 1..max(1, totalPages) and displayedEmployees is the slice of
\* filteredEmployees from (currentPage-1)*pageSize to currentPage*pageSize;
\* goToPage with a page outside 1..totalPages changes no field, and every
\* applyFilters that runs to its end leaves currentPage at 1.
PagingContract ==
  /\ []PagingConsistent
  /\ [][GoesOutside => UNCHANGED <<tableVars, searchTerm>>]_vars
  /\ [][AppliesFilters => currentPage' = 1]_vars

\* C14 witness: a search has kept enough records for two pages, a column was
\* sorted and the second, partly filled page is shown
SecondPageOfSearchShown ==
  /\ searchTerm = <<"b">>
  /\ sortState.column = "id"
  /\ totalPages = 2
  /\ currentPage = 2
  /\ Len(Filtered) > pageSize
  /\ Len(Filtered) < Len(All)
  /\ Len(Displayed) = Len(Filtered) - pageSize
  /\ Displayed[1] = Filtered[pageSize + 1]

===========================================================================
